---- MODULE Spec2Model ----
(***************************************************************************)
(* Model of the tox21 data preparation script (data_preprocessing.py) and  *)
(* of the trainer's main (fc_nn_tox21-multi-task.py).                      *)
(*                                                                         *)
(* A behaviour is one of three programs, chosen in Init:                   *)
(*   "main"    data_preprocessing.main: its six conversions in sequence;   *)
(*   "calls"   a process that imports data_preprocessing and calls         *)
(*             convert_sdf_to_npz repeatedly with the same arguments, and  *)
(*             which may be started again as a fresh process;              *)
(*   "trainer" fc_nn_tox21-multi-task.main.                                *)
(***************************************************************************)
EXTENDS Integers, Sequences, FiniteSets, TLC

VARIABLES
    script,     \* which program runs
    files,      \* the sdf files: path -> sequence of records
    given,      \* the arguments the "calls" program passes
    disk,       \* the npz files written: path -> [x, y]
    rng,        \* state of the module-level random generator
    run,        \* number of the process (1 = first start)
    ncalls,     \* calls of convert_sdf_to_npz begun in this process
    pc,         \* position of the preprocessing process
    args,       \* arguments of the current call
    X, Y,       \* the lists of convert_sdf_to_npz
    pos,        \* records the for loop has consumed from suppl
    counter,    \* the variable counter
    warnings,   \* LOGGER.warning calls of the current call
    writes,     \* np.savez calls of the current call
    results,    \* history: one entry per finished call
    tpc,        \* position of the trainer's main
    train,      \* the trainer's argument train
    weights,    \* weights files that exist
    epoch,      \* epochs fit has run
    tlog        \* history: model operations the trainer has performed

pvars == <<script, files, given, disk, rng, run, ncalls, pc, args, X, Y, pos,
           counter, warnings, writes, results>>
tvars == <<tpc, train, weights, epoch, tlog>>
vars == <<script, files, given, disk, rng, run, ncalls, pc, args, X, Y, pos,
          counter, warnings, writes, results, tpc, train, weights, epoch, tlog>>

----------------------------------------------------------------------------
(* Bounds *)

MaxRecords == 3
MaxMainRecords == 2
CallsPerRun == 2
MaxRuns == 2

----------------------------------------------------------------------------
(* Data *)

Range(s) == {s[i] : i \in 1..Len(s)}

\* A path is the sequence of the pieces of its text.
Tox21Sdf == <<"data/tox21_10k_data_all", ".sdf">>
NcidbSdf == <<"data/ncidb", ".sdf">>
NcidbExperimNpz == <<"data/ncidb_experim_data", "_", "fingerprints", ".npz">>
NoPath == <<>>

ValidStructTypes == {"fingerprints", "2Dimg"}
StructTypes == ValidStructTypes \cup {"smiles"}

Tox21Properties == <<"NR-AR", "NR-ER-LBD", "SR-ATAD5">>
PropLists == {<<"NR-AR">>, Tox21Properties}

EmptyDict == [k \in {} |-> 0]

\* The property dictionaries the records of the two files may carry.
KindProps(kind) ==
    CASE kind = "partial"  -> [k \in {"NR-AR"} |-> 1]
      [] kind = "full"     -> [k \in {"NR-AR", "NR-ER-LBD", "SR-ATAD5"} |->
                                 IF k = "NR-ER-LBD" THEN 1 ELSE 0]
      [] kind = "kow"      -> [k \in {"KOW logP"} |-> 2]
      [] kind = "both"     -> [k \in {"KOW logP", "Experimental logP"} |->
                                 IF k = "KOW logP" THEN 3 ELSE 4]
      [] OTHER             -> EmptyDict

Tox21Kinds == {"None", "partial", "full"}
NcidbKinds == {"None", "kow", "both"}

\* What SDMolSupplier yields for a file: a molecule, or None for a record
\* that cannot be parsed (readable = FALSE).
MakeFile(kinds) ==
    [i \in 1..Len(kinds) |->
        [readable |-> kinds[i] # "None", mol |-> i, props |-> KindProps(kinds[i])]]

FilesOver(kindSet, n) ==
    {MakeFile(ks) : ks \in UNION {[1..m -> kindSet] : m \in 0..n}}

----------------------------------------------------------------------------
(* The random generator: random.seed, getrandbits, _randbelow, shuffle.    *)
(* The generator is a small full-period congruential generator: what the   *)
(* model keeps of it is that its output is a function of its state and     *)
(* that every draw advances the state.                                     *)

RngBits == 4
RngModulus == 16
RngStates == 0..(RngModulus - 1)

random_seed(a) == a % RngModulus

NextRng(s) == (5 * s + 3) % RngModulus

RECURSIVE BitLength(_)
BitLength(n) == IF n = 0 THEN 0 ELSE 1 + BitLength(n \div 2)

GetRandBits(s, k) ==
    [value |-> NextRng(s) \div (2 ^ (RngBits - k)), rng |-> NextRng(s)]

RECURSIVE RandBelow(_, _)
RandBelow(s, n) ==
    LET r == GetRandBits(s, BitLength(n))
    IN  IF r.value < n THEN r ELSE RandBelow(r.rng, n)

\* random.shuffle(x): for i in reversed(range(1, len(x))), exchange x[i]
\* with x[randbelow(i + 1)] (indices here are one more than Python's).
RECURSIVE ShuffleFrom(_, _, _)
ShuffleFrom(list, s, i) ==
    IF i < 2 THEN [list |-> list, rng |-> s]
    ELSE LET r == RandBelow(s, i)
             j == r.value + 1
         IN  ShuffleFrom([list EXCEPT ![i] = list[j], ![j] = list[i]], r.rng, i - 1)

Shuffle(list, s) == ShuffleFrom(list, s, Len(list))

----------------------------------------------------------------------------
(* Pure parts of convert_sdf_to_npz *)

\* set(properties) <= set(properties_dict.keys())
HasAllPropertiesWrong(properties, properties_dict) ==
    Range(properties) = DOMAIN properties_dict

HasAllProperties(properties, properties_dict) ==
    Range(properties) \subseteq DOMAIN properties_dict

MolToSmiles(mol) == [smiles |-> mol.mol]

convert_smiles_into_fingerprints(smile) == [kind |-> "fingerprint", mol |-> smile.smiles]

convert_smiles_into_2d_structure_images(smile) == [kind |-> "image", mol |-> smile.smiles]

Structure(struct_type, mol) ==
    IF struct_type = "fingerprints"
    THEN convert_smiles_into_fingerprints(MolToSmiles(mol))
    ELSE convert_smiles_into_2d_structure_images(MolToSmiles(mol))

\* [properties_dict[key] for key in properties]
LabelRow(properties, properties_dict) ==
    [k \in 1..Len(properties) |-> properties_dict[properties[k]]]

Zip(a, b) ==
    [k \in 1..(IF Len(a) < Len(b) THEN Len(a) ELSE Len(b)) |-> <<a[k], b[k]>>]

\* mols = list(zip(X, Y)); random.shuffle(mols); X, Y = zip(*mols)
ShuffleSeparately(xs, ys, s) ==
    LET sx == Shuffle(xs, s)
        sy == Shuffle(ys, sx.rng)
    IN  [x |-> sx.list, y |-> sy.list, rng |-> sy.rng]

ShufflePaired(xs, ys, s) ==
    LET sh == Shuffle(Zip(xs, ys), s)
    IN  [x   |-> [k \in 1..Len(sh.list) |-> sh.list[k][1]],
         y   |-> [k \in 1..Len(sh.list) |-> sh.list[k][2]],
         rng |-> sh.rng]

\* str.replace(old, new) on a path; new is a sequence of pieces
RECURSIVE Replace(_, _, _)
Replace(path, old, new) ==
    IF path = <<>> THEN <<>>
    ELSE (IF Head(path) = old THEN new ELSE <<Head(path)>>)
         \o Replace(Tail(path), old, new)

\* npz_file_path or sdf_file_path.replace(".sdf", "_%s.npz" % struct_type)
NpzPath(a) ==
    IF a.npz # NoPath THEN a.npz
    ELSE Replace(a.sdf, ".sdf", <<"_", a.struct_type, ".npz">>)

Call(sdf, struct_type, properties, npz) ==
    [sdf |-> sdf, struct_type |-> struct_type, properties |-> properties, npz |-> npz]

\* The calls of data_preprocessing.main, in order.
MainCalls ==
    << Call(Tox21Sdf, "fingerprints", Tox21Properties, NoPath),
       Call(NcidbSdf, "fingerprints", <<"KOW logP">>, NoPath),
       Call(NcidbSdf, "fingerprints", <<"Experimental logP">>, NcidbExperimNpz),
       Call(Tox21Sdf, "2Dimg", Tox21Properties, NoPath),
       Call(NcidbSdf, "2Dimg", <<"KOW logP">>, NoPath),
       Call(NcidbSdf, "2Dimg", <<"Experimental logP">>, NcidbExperimNpz) >>

\* The calls the running program makes.
Calls == IF script = "main" THEN MainCalls
         ELSE [k \in 1..CallsPerRun |-> given]

suppl == files[args.sdf]
mol == suppl[pos + 1]

Result(outcome, path, x, y) ==
    [run |-> run, call |-> ncalls, sdf |-> args.sdf,
     struct_type |-> args.struct_type, properties |-> args.properties,
     outcome |-> outcome, path |-> path, x |-> x, y |-> y]

----------------------------------------------------------------------------
(* The trainer's files *)

Epochs == 50
TrainedWeightsPath == "weights/fcnn_tox21_50_three_full_1layer.h5"
LoadedWeightsPath == "weights/fcnn_tox21_50.h5"


----------------------------------------------------------------------------
(* Initial states *)

NoCall == Call(NoPath, "fingerprints", <<>>, NoPath)

InitCommon ==
    /\ disk = [p \in {} |-> 0]
    /\ rng = random_seed(1)
    /\ run = 1
    /\ ncalls = 0
    /\ args = NoCall
    /\ X = <<>>
    /\ Y = <<>>
    /\ pos = 0
    /\ counter = 0
    /\ warnings = 0
    /\ writes = 0
    /\ results = <<>>
    /\ epoch = 0
    /\ tlog = <<>>

NoFiles == [p \in {Tox21Sdf, NcidbSdf} |-> <<>>]

InitMain ==
    /\ script = "main"
    /\ \E t \in FilesOver(Tox21Kinds, MaxMainRecords),
          n \in FilesOver(NcidbKinds, MaxMainRecords) :
            files = [p \in {Tox21Sdf, NcidbSdf} |-> IF p = Tox21Sdf THEN t ELSE n]
    /\ given = NoCall
    /\ pc = "idle"
    /\ tpc = "off"
    /\ train = FALSE
    /\ weights = {}

InitCalls ==
    /\ script = "calls"
    /\ \E t \in FilesOver(Tox21Kinds, MaxRecords) :
            files = [p \in {Tox21Sdf, NcidbSdf} |-> IF p = Tox21Sdf THEN t ELSE <<>>]
    /\ \E st \in StructTypes, pl \in PropLists :
            given = Call(Tox21Sdf, st, pl, NoPath)
    /\ pc = "idle"
    /\ tpc = "off"
    /\ train = FALSE
    /\ weights = {}

InitTrainer ==
    /\ script = "trainer"
    /\ files = NoFiles
    /\ given = NoCall
    /\ pc = "off"
    /\ tpc = "start"
    /\ train \in BOOLEAN
    /\ weights \in SUBSET {TrainedWeightsPath, LoadedWeightsPath}

Init ==
    /\ InitCommon
    /\ (InitMain \/ InitCalls \/ InitTrainer)

----------------------------------------------------------------------------
(* data_preprocessing.py *)

\* Lines 13 and 148: the module is imported by a fresh process, which seeds
\* the generator.  The files on disk and the history stay.
StartProcessUnseeded ==
    /\ script = "calls"
    /\ run < MaxRuns
    /\ \/ pc = "crashed"
       \/ pc = "idle" /\ ncalls = Len(Calls)
    /\ run' = run + 1
    /\ rng' \in RngStates
    /\ ncalls' = 0
    /\ pc' = "idle"
    /\ UNCHANGED <<script, files, given, disk, args, X, Y, pos, counter,
                   warnings, writes, results>>
    /\ UNCHANGED tvars

StartProcess ==
    /\ script = "calls"
    /\ run < MaxRuns
    /\ \/ pc = "crashed"
       \/ pc = "idle" /\ ncalls = Len(Calls)
    /\ run' = run + 1
    /\ rng' = random_seed(1)
    /\ ncalls' = 0
    /\ pc' = "idle"
    /\ UNCHANGED <<script, files, given, disk, args, X, Y, pos, counter,
                   warnings, writes, results>>
    /\ UNCHANGED tvars

\* Lines 33-44: the next call of the program begins.
BeginConvert ==
    /\ pc = "idle"
    /\ ncalls < Len(Calls)
    /\ ncalls' = ncalls + 1
    /\ args' = Calls[ncalls + 1]
    /\ X' = <<>>
    /\ Y' = <<>>
    /\ pos' = 0
    /\ counter' = 0
    /\ warnings' = 0
    /\ writes' = 0
    /\ pc' = "loop"
    /\ UNCHANGED <<script, files, given, disk, rng, run, results>>
    /\ UNCHANGED tvars

\* Lines 45-48, 71-76: mol is None, mol.GetPropsAsDict() raises
\* AttributeError, which the handler logs.
DiscardAborts ==
    /\ pc = "loop"
    /\ pos < Len(suppl)
    /\ ~mol.readable
    /\ pos' = pos + 1
    /\ results' = Append(results, Result("AttributeError", NoPath, <<>>, <<>>))
    /\ pc' = "crashed"
    /\ UNCHANGED <<script, files, given, disk, rng, run, ncalls, args, X, Y,
                   counter, warnings, writes>>
    /\ UNCHANGED tvars

Discard ==
    /\ pc = "loop"
    /\ pos < Len(suppl)
    /\ ~mol.readable
    /\ warnings' = warnings + 1
    /\ pos' = pos + 1
    /\ counter' = counter + 1
    /\ UNCHANGED <<script, files, given, disk, rng, run, ncalls, pc, args, X, Y,
                   writes, results>>
    /\ UNCHANGED tvars

\* Lines 45-52, 74-76: the record lacks a requested property.
SkipWithoutCounting ==
    /\ pc = "loop"
    /\ pos < Len(suppl)
    /\ mol.readable
    /\ ~HasAllProperties(args.properties, mol.props)
    /\ pos' = pos + 1
    /\ UNCHANGED <<script, files, given, disk, rng, run, ncalls, pc, args, X, Y,
                   counter, warnings, writes, results>>
    /\ UNCHANGED tvars

Skip ==
    /\ pc = "loop"
    /\ pos < Len(suppl)
    /\ mol.readable
    /\ ~HasAllProperties(args.properties, mol.props)
    /\ pos' = pos + 1
    /\ counter' = counter + 1
    /\ UNCHANGED <<script, files, given, disk, rng, run, ncalls, pc, args, X, Y,
                   warnings, writes, results>>
    /\ UNCHANGED tvars

\* Lines 45-60, 68-69, 74-76: the record has every requested property.
Keep ==
    /\ pc = "loop"
    /\ pos < Len(suppl)
    /\ mol.readable
    /\ HasAllProperties(args.properties, mol.props)
    /\ args.struct_type \in ValidStructTypes
    /\ X' = Append(X, Structure(args.struct_type, mol))
    /\ Y' = Append(Y, LabelRow(args.properties, mol.props))
    /\ pos' = pos + 1
    /\ counter' = counter + 1
    /\ UNCHANGED <<script, files, given, disk, rng, run, ncalls, pc, args,
                   warnings, writes, results>>
    /\ UNCHANGED tvars

\* Lines 45-56, 58, 62-66: the struct_type is neither of the two; the
\* NameError is not caught by the handler of line 71 and ends the process.
RaiseNameError ==
    /\ pc = "loop"
    /\ pos < Len(suppl)
    /\ mol.readable
    /\ HasAllProperties(args.properties, mol.props)
    /\ args.struct_type \notin ValidStructTypes
    /\ pos' = pos + 1
    /\ results' = Append(results, Result("NameError", NoPath, <<>>, <<>>))
    /\ pc' = "crashed"
    /\ UNCHANGED <<script, files, given, disk, rng, run, ncalls, args, X, Y,
                   counter, warnings, writes>>
    /\ UNCHANGED tvars

\* Line 45: suppl is exhausted and the for loop ends.
LoopEnd ==
    /\ pc = "loop"
    /\ pos = Len(suppl)
    /\ pc' = "shuffle"
    /\ UNCHANGED <<script, files, given, disk, rng, run, ncalls, args, X, Y, pos,
                   counter, warnings, writes, results>>
    /\ UNCHANGED tvars

\* Lines 78-100 with at least one pair collected.
ShuffleMols ==
    /\ pc = "shuffle"
    /\ Zip(X, Y) # <<>>
    /\ LET sh == ShufflePaired(X, Y, rng)
       IN  /\ X' = sh.x
           /\ Y' = sh.y
           /\ rng' = sh.rng
    /\ pc' = "save"
    /\ UNCHANGED <<script, files, given, disk, run, ncalls, args, pos, counter,
                   warnings, writes, results>>
    /\ UNCHANGED tvars

\* Lines 78-90 with nothing collected: zip(*mols) yields nothing and the
\* assignment to X, Y raises ValueError.
UnzipEmpty ==
    /\ pc = "shuffle"
    /\ Zip(X, Y) = <<>>
    /\ results' = Append(results, Result("ValueError", NoPath, <<>>, <<>>))
    /\ pc' = "crashed"
    /\ UNCHANGED <<script, files, given, disk, rng, run, ncalls, args, X, Y, pos,
                   counter, warnings, writes>>
    /\ UNCHANGED tvars

\* Lines 102-106: np.savez, and the call returns.
Save ==
    /\ pc = "save"
    /\ LET path == NpzPath(args)
       IN  /\ disk' = [p \in DOMAIN disk \cup {path} |->
                          IF p = path THEN [x |-> X, y |-> Y] ELSE disk[p]]
           /\ results' = Append(results, Result("saved", path, X, Y))
    /\ writes' = writes + 1
    /\ pc' = "idle"
    /\ UNCHANGED <<script, files, given, rng, run, ncalls, args, X, Y, pos,
                   counter, warnings>>
    /\ UNCHANGED tvars

----------------------------------------------------------------------------
(* fc_nn_tox21-multi-task.py: main *)

\* Lines 74-77
GetData ==
    /\ tpc = "start"
    /\ tpc' = "build"
    /\ UNCHANGED <<train, weights, epoch, tlog>>
    /\ UNCHANGED pvars

\* Lines 81-85
BuildClassifier ==
    /\ tpc = "build"
    /\ tpc' = IF train THEN "fit" ELSE "check_weights"
    /\ UNCHANGED <<train, weights, epoch, tlog>>
    /\ UNCHANGED pvars

\* Line 89: one epoch of fit
FitEpoch ==
    /\ tpc = "fit"
    /\ epoch < Epochs
    /\ epoch' = epoch + 1
    /\ UNCHANGED <<tpc, train, weights, tlog>>
    /\ UNCHANGED pvars

\* Line 89: fit returns
FitDone ==
    /\ tpc = "fit"
    /\ epoch = Epochs
    /\ tlog' = Append(tlog, "fit")
    /\ tpc' = "save_weights"
    /\ UNCHANGED <<train, weights, epoch>>
    /\ UNCHANGED pvars

\* Line 92
SaveWeights ==
    /\ tpc = "save_weights"
    /\ weights' = weights \cup {TrainedWeightsPath}
    /\ tlog' = Append(tlog, "save_weights")
    /\ tpc' = "plots"
    /\ UNCHANGED <<train, epoch>>
    /\ UNCHANGED pvars

\* Lines 95-130
Plots ==
    /\ tpc = "plots"
    /\ tpc' = "evaluate"
    /\ UNCHANGED <<train, weights, epoch, tlog>>
    /\ UNCHANGED pvars

\* Lines 133-138
CheckWeightsSkipped ==
    /\ tpc = "check_weights"
    /\ tpc' = IF LoadedWeightsPath \in weights THEN "load_weights" ELSE "evaluate"
    /\ UNCHANGED <<train, weights, epoch, tlog>>
    /\ UNCHANGED pvars

CheckWeights ==
    /\ tpc = "check_weights"
    /\ tpc' = IF LoadedWeightsPath \in weights THEN "load_weights" ELSE "raised"
    /\ UNCHANGED <<train, weights, epoch, tlog>>
    /\ UNCHANGED pvars

\* Line 139: load_weights succeeds
LoadWeights ==
    /\ tpc = "load_weights"
    /\ tlog' = Append(tlog, "load_weights")
    /\ tpc' = "evaluate"
    /\ UNCHANGED <<train, weights, epoch>>
    /\ UNCHANGED pvars

\* Line 139: load_weights raises (the file does not fit the classifier)
LoadWeightsFails ==
    /\ tpc = "load_weights"
    /\ tpc' = "raised"
    /\ UNCHANGED <<train, weights, epoch, tlog>>
    /\ UNCHANGED pvars

\* Lines 141-148
Evaluate ==
    /\ tpc = "evaluate"
    /\ tlog' = Append(tlog, "evaluate")
    /\ tpc' = "each_metric"
    /\ UNCHANGED <<train, weights, epoch>>
    /\ UNCHANGED pvars

\* Line 149
EachMetric ==
    /\ tpc = "each_metric"
    /\ tlog' = Append(tlog, "each_metric")
    /\ tpc' = "done"
    /\ UNCHANGED <<train, weights, epoch>>
    /\ UNCHANGED pvars

----------------------------------------------------------------------------

Next ==
    \/ StartProcess
    \/ BeginConvert
    \/ Discard
    \/ Skip
    \/ Keep
    \/ RaiseNameError
    \/ LoopEnd
    \/ ShuffleMols
    \/ UnzipEmpty
    \/ Save
    \/ GetData
    \/ BuildClassifier
    \/ FitEpoch
    \/ FitDone
    \/ SaveWeights
    \/ Plots
    \/ CheckWeights
    \/ LoadWeights
    \/ LoadWeightsFails
    \/ Evaluate
    \/ EachMetric

Spec == Init /\ [][Next]_vars

\* One iteration of the for loop of lines 45-76, or its end.
LoopStep == Discard \/ Skip \/ Keep \/ RaiseNameError \/ LoopEnd

\* The program is sequential: while the loop has a step to take, it takes it.
LiveSpec == Init /\ [][Next]_vars /\ WF_vars(LoopStep)


----------------------------------------------------------------------------
(* Vocabulary of the properties *)

\* The record is a readable molecule that carries every requested property.
Matching(rec, properties) ==
    /\ rec.readable
    /\ \A k \in 1..Len(properties) : properties[k] \in DOMAIN rec.props

\* Positions of the matching records among the first n records of a file.
MatchingUpTo(file, properties, n) ==
    {i \in 1..n : Matching(file[i], properties)}

MolsOf(xs) == {xs[k].mol : k \in 1..Len(xs)}

PairsOf(xs, ys) == {<<xs[k], ys[k]>> : k \in 1..Len(xs)}

Saved == {k \in 1..Len(results) : results[k].outcome = "saved"}

InCall == pc \in {"loop", "shuffle", "save"}

\* An unreadable record of the file is followed by a matching one.
DiscardThenMatch(file, properties) ==
    \E i, j \in 1..Len(file) :
        i < j /\ ~file[i].readable /\ Matching(file[j], properties)

----------------------------------------------------------------------------
(* C1 *)

\* C1: a record has a row in the collected and in the saved arrays if and
\* only if it is a readable molecule whose property keys include every
\* requested property (extra keys allowed), and it has one row only.
C1_FilterExact ==
    /\ InCall =>
          /\ MolsOf(X) = MatchingUpTo(suppl, args.properties, pos)
          /\ Len(X) = Cardinality(MolsOf(X))
    /\ \A k \in Saved :
          LET r == results[k]
              file == files[r.sdf]
          IN  /\ MolsOf(r.x) = MatchingUpTo(file, r.properties, Len(file))
              /\ Len(r.x) = Cardinality(MolsOf(r.x))

\* A saved output whose input held a molecule lacking a requested property
\* and a molecule with more properties than requested.
C1_Witness ==
    \E k \in Saved :
        LET r == results[k]
            file == files[r.sdf]
        IN  /\ \E i \in 1..Len(file) :
                  file[i].readable /\ ~Matching(file[i], r.properties)
            /\ \E i \in 1..Len(file) :
                  /\ Matching(file[i], r.properties)
                  /\ DOMAIN file[i].props # Range(r.properties)
                  /\ i \in MolsOf(r.x)

----------------------------------------------------------------------------
(* C2 *)

\* C2 (state part): X and Y have equal length after every iteration of the
\* loop, and in the collected and in the saved arrays the label row at an
\* index is the label row of the record whose structure is at that index.
C2_PairedState ==
    /\ InCall =>
          /\ Len(X) = Len(Y)
          /\ \A k \in 1..Len(X) :
                Y[k] = LabelRow(args.properties, suppl[X[k].mol].props)
    /\ \A k \in Saved :
          LET r == results[k]
              file == files[r.sdf]
          IN  /\ Len(r.x) = Len(r.y)
              /\ \A n \in 1..Len(r.x) :
                    r.y[n] = LabelRow(r.properties, file[r.x[n].mol].props)

\* C2 (step part): the shuffle keeps the pairs: the pairs after it are the
\* pairs before it, none lost and none duplicated.
C2_ShuffleKeepsPairs ==
    (pc = "shuffle" /\ pc' = "save") =>
        /\ Len(X') = Len(X)
        /\ Len(Y') = Len(Y)
        /\ PairsOf(X', Y') = PairsOf(X, Y)
        /\ Cardinality(PairsOf(X', Y')) = Len(X')

\* C2: the saved arrays stay paired through the collection and the shuffle.
C2_Paired == [](C2_PairedState) /\ [][C2_ShuffleKeepsPairs]_vars

\* A saved output of at least two rows that the shuffle has reordered.
C2_Witness ==
    \E k \in Saved :
        /\ Len(results[k].x) >= 2
        /\ \E n \in 1..(Len(results[k].x) - 1) :
              results[k].x[n].mol > results[k].x[n + 1].mol

----------------------------------------------------------------------------
(* C3 *)

SameArguments(r1, r2) ==
    /\ r1.sdf = r2.sdf
    /\ r1.struct_type = r2.struct_type
    /\ r1.properties = r2.properties

SameOutput(r1, r2) ==
    /\ r1.outcome = r2.outcome
    /\ r1.path = r2.path
    /\ r1.x = r2.x
    /\ r1.y = r2.y

\* C3 as claimed: any two calls with the same input and the same arguments
\* save the same rows in the same order, also one after the other in the
\* same process.
C3_AnyTwoCallsAgree ==
    \A i, j \in 1..Len(results) :
        SameArguments(results[i], results[j]) => SameOutput(results[i], results[j])

\* C3 as amended: two processes that make the same sequence of calls on the
\* same input agree call by call: the k-th call of one saves the same rows
\* in the same order as the k-th call of the other.
C3_RunsAgree ==
    \A i, j \in 1..Len(results) :
        ( /\ results[i].run # results[j].run
          /\ results[i].call = results[j].call
          /\ SameArguments(results[i], results[j]) )
        => SameOutput(results[i], results[j])

\* Two processes have each made their second call and saved at least two
\* rows in it, in an order that is not the order their first call saved.
C3_Witness ==
    \E i, j, f \in Saved :
        /\ results[i].run = 1
        /\ results[j].run = 2
        /\ results[i].call = 2
        /\ results[j].call = 2
        /\ results[f].run = 1
        /\ results[f].call = 1
        /\ Len(results[i].x) >= 2
        /\ results[f].x # results[i].x

----------------------------------------------------------------------------
(* C4 *)

\* C4 as claimed: a call with a struct_type other than "fingerprints" and
\* "2Dimg" ends by raising NameError and writes no file.
C4_OtherTypeRaisesNameError ==
    \A k \in 1..Len(results) :
        results[k].struct_type \notin ValidStructTypes =>
            /\ results[k].outcome = "NameError"
            /\ results[k].path = NoPath

----------------------------------------------------------------------------
(* C5 *)

\* C5 (step part): a record that cannot be read leaves X and Y as they
\* are, is logged, and the loop goes on with the next record.
C5_DiscardStep ==
    (pc = "loop" /\ pos < Len(suppl) /\ ~mol.readable /\ pos' # pos) =>
        /\ X' = X
        /\ Y' = Y
        /\ warnings' = warnings + 1
        /\ pos' = pos + 1
        /\ pc' = "loop"

\* C5 (state part): with one of the two structure types, a matching record
\* that comes after a discarded one is collected, and the call saves it.
C5_LaterIncluded ==
    /\ (InCall /\ args.struct_type \in ValidStructTypes) =>
          \A i, j \in 1..pos :
              (i < j /\ ~suppl[i].readable /\ Matching(suppl[j], args.properties))
              => j \in MolsOf(X)
    /\ \A k \in 1..Len(results) :
          LET r == results[k]
              file == files[r.sdf]
          IN  (r.struct_type \in ValidStructTypes
               /\ DiscardThenMatch(file, r.properties)) =>
                  /\ r.outcome = "saved"
                  /\ \A i, j \in 1..Len(file) :
                        (i < j /\ ~file[i].readable /\ Matching(file[j], r.properties))
                        => j \in MolsOf(r.x)

\* C5: a record raising AttributeError is discarded and the records after
\* it are still converted.
C5_Discarded == [](C5_LaterIncluded) /\ [][C5_DiscardStep]_vars

\* A saved output whose input had an unreadable record before a matching one.
C5_Witness ==
    \E k \in Saved :
        /\ DiscardThenMatch(files[results[k].sdf], results[k].properties)
        /\ results[k].x # <<>>

----------------------------------------------------------------------------
(* C6 *)

\* C6 (state part): counter counts the records handled, equals the number
\* of records once the loop has ended, and the file is written at most
\* once, after the last record.
C6_Counted ==
    /\ InCall => counter = pos
    /\ pc \in {"shuffle", "save"} => counter = Len(suppl)
    /\ writes <= 1
    /\ writes = 1 => (pos = Len(suppl) /\ counter = Len(suppl))

\* C6 (step part): records are taken one at a time in input order, and
\* each record that does not end the call adds one to counter.
C6_OneAtATime ==
    /\ (pos' # pos /\ pos' # 0) => pos' = pos + 1
    /\ (pos' = pos + 1 /\ pc' = "loop") => counter' = counter + 1
    /\ writes' # writes => (writes' = 0 \/ (pc = "save" /\ writes' = writes + 1))

\* C6: single pass: every record is handled once, in order, the loop ends,
\* and the output is written at most once, after the loop.
C6_SinglePass ==
    /\ [](C6_Counted)
    /\ [][C6_OneAtATime]_vars
    /\ ((pc = "loop") ~> (pc \in {"shuffle", "crashed"}))

\* A call that kept one record, filtered one out and discarded one has
\* returned after writing its file.
C6_Witness ==
    /\ pc = "idle"
    /\ writes = 1
    /\ counter = 3
    /\ warnings = 1
    /\ Len(X) = 1

----------------------------------------------------------------------------
(* C7 *)

Evaluated == "evaluate" \in Range(tlog) \/ "each_metric" \in Range(tlog)

\* C7 (state part): evaluate and each_metric come after fit and
\* save_weights, or after load_weights; without the weights file and
\* without training nothing is evaluated.
C7_WeightsFirst ==
    /\ (Evaluated \/ tpc \in {"each_metric", "done"}) =>
          IF train
          THEN Len(tlog) >= 3 /\ tlog[1] = "fit" /\ tlog[2] = "save_weights"
               /\ tlog[3] = "evaluate"
          ELSE Len(tlog) >= 2 /\ tlog[1] = "load_weights" /\ tlog[2] = "evaluate"
    /\ (script = "trainer" /\ ~train /\ LoadedWeightsPath \notin weights) =>
          /\ ~Evaluated
          /\ tpc \notin {"load_weights", "evaluate", "each_metric", "done"}

\* C7 (step part): the check of the weights file raises when the file does
\* not exist.
C7_MissingRaises ==
    (tpc = "check_weights" /\ LoadedWeightsPath \notin weights /\ tpc' # tpc)
        => tpc' = "raised"

\* C7: the trainer never evaluates a model without weights.
C7_NeverWithoutWeights == [](C7_WeightsFirst) /\ [][C7_MissingRaises]_vars

\* main(train=False) has raised for want of the weights file, before any
\* evaluation.
C7_Witness ==
    /\ tpc = "raised"
    /\ ~train
    /\ LoadedWeightsPath \notin weights
    /\ tlog = <<>>

----------------------------------------------------------------------------
(* C8 *)

MainFinished == script = "main" /\ pc = "idle" /\ ncalls = Len(MainCalls)

\* C8 as claimed: when main has finished, its six conversions have written
\* six distinct paths and the output of each is still on disk.
C8_SixOutputsKept ==
    MainFinished =>
        /\ Cardinality({results[k].path : k \in 1..Len(results)}) = Len(MainCalls)
        /\ \A k \in 1..Len(results) :
              /\ results[k].path \in DOMAIN disk
              /\ disk[results[k].path] = [x |-> results[k].x, y |-> results[k].y]

----------------------------------------------------------------------------
(* C9 *)

\* C9 as claimed: a call with one of the two structure types completes and
\* saves a file whatever the input, also when no record is kept.
C9_AlwaysSaves ==
    \A k \in 1..Len(results) :
        results[k].struct_type \in ValidStructTypes =>
            /\ results[k].outcome = "saved"
            /\ results[k].path \in DOMAIN disk

====
